---- MODULE Spec2Model ----
(***************************************************************************)
(* Model of pkg/imgpkg/image/dir_image.go: DirImage.AsDirectory flattens   *)
(* the layers of an OCI image into one directory.                          *)
(*                                                                         *)
(* Strings (entry names, paths, map keys) are sequences of one-character   *)
(* strings, so that strings.Split, filepath.Join, filepath.Clean,          *)
(* filepath.Base, filepath.Dir, strings.HasPrefix and strings.TrimPrefix   *)
(* are computed on the characters, as the Go library computes them on a    *)
(* Unix host (separator '/').                                              *)
(***************************************************************************)
EXTENDS Integers, Sequences, FiniteSets, TLC

VARIABLES
    fs,        \* the host filesystem: path -> object, for the paths that exist
    fileMap,   \* AsDirectory's fileMap: the set of keys mapped to true
    layers,    \* what i.img.Layers() returned: base-to-top sequence of tar streams
    pc,        \* position in AsDirectory
    idx,       \* the loop variable of AsDirectory (1-based; Go's idx + 1)
    pos,       \* headers of the current layer's stream consumed by tarReader.Next
    deferred,  \* the deferred layerStream.Close calls, oldest first
    closed,    \* layer index -> number of Close calls its stream received
    calls,     \* the calls made on the collaborators (layers, logger, streams), in order
    touched,   \* every path handed to a filesystem call that creates, writes or removes
    ret,       \* AsDirectory's result: "running", "nil" or the error returned
    runs,      \* the calls of AsDirectory that returned before this one: what
               \* each returned and the filesystem it left
    shouldChown, \* i.shouldChown: the process runs as root (os.Getuid() == 0)
    unseen     \* the entries at whose path os.Lstat returned an error although
               \* an object was there

vars == <<fs, fileMap, layers, pc, idx, pos, deferred, closed, calls, touched, ret,
          runs, shouldChown, unseen>>

----------------------------------------------------------------------------
(* Bounds of the model *)

\* at most this many layers in the image
MaxLayers == 2

\* at most this many tar entries in the whole image
MaxEntries == 2

\* the stored modes of the images of SpecModes run from 0 to this (0777)
MaxMode == 511

\* SpecSound: at most this many calls of AsDirectory on one image, and at
\* most this many tar entries in the image
MaxRuns == 2
MaxSoundEntries == 3

----------------------------------------------------------------------------
(* strings *)

SLASH == "/"
BACKSLASH == "\\"
DOT == <<".">>
DOTDOT == <<".", ".">>
ROOTSTR == <<"/">>

\* strings.HasPrefix
HasPrefix(s, prefix) ==
    /\ Len(s) >= Len(prefix)
    /\ SubSeq(s, 1, Len(prefix)) = prefix

\* strings.TrimPrefix
TrimPrefix(s, prefix) ==
    IF HasPrefix(s, prefix) THEN SubSeq(s, Len(prefix) + 1, Len(s)) ELSE s

\* strings.Contains, for a one-character substring
Contains(s, c) == \E i \in 1..Len(s) : s[i] = c

\* index of the first sep in s (s contains one)
FirstIndex(s, sep) ==
    CHOOSE k \in 1..Len(s) : s[k] = sep /\ \A j \in 1..(k - 1) : s[j] # sep

RECURSIVE Split(_, _)
SplitAt(s, sep, i) ==
    <<SubSeq(s, 1, i - 1)>> \o Split(SubSeq(s, i + 1, Len(s)), sep)

\* strings.Split, for a one-character separator
Split(s, sep) ==
    IF ~Contains(s, sep) THEN <<s>> ELSE SplitAt(s, sep, FirstIndex(s, sep))

\* strings.Join(elems, "/")
RECURSIVE JoinSep(_)
JoinSep(elems) ==
    IF Len(elems) = 0 THEN <<>>
    ELSE IF Len(elems) = 1 THEN elems[1]
    ELSE elems[1] \o <<SLASH>> \o JoinSep(Tail(elems))

\* The elements filepath.Clean keeps, in order: empty elements and "." are
\* dropped, ".." removes the element before it when there is one to remove
\* and is otherwise dropped (rooted path) or kept (relative path).
CleanElem(e, out, rooted) ==
    IF e = <<>> \/ e = DOT THEN out
    ELSE IF e = DOTDOT
    THEN IF Len(out) > 0 /\ out[Len(out)] # DOTDOT
         THEN SubSeq(out, 1, Len(out) - 1)
         ELSE IF rooted THEN out ELSE Append(out, e)
    ELSE Append(out, e)

RECURSIVE CleanElems(_, _, _)
CleanElems(elems, out, rooted) ==
    IF Len(elems) = 0 THEN out
    ELSE CleanElems(Tail(elems), CleanElem(Head(elems), out, rooted), rooted)

\* the cleaned path spelled from the elements kept
CleanResult(kept, rooted) ==
    IF rooted THEN <<SLASH>> \o JoinSep(kept)
    ELSE IF Len(kept) = 0 THEN DOT
    ELSE JoinSep(kept)

\* filepath.Clean
Clean(path) ==
    IF path = <<>> THEN DOT
    ELSE CleanResult(CleanElems(Split(path, SLASH), <<>>, path[1] = SLASH),
                     path[1] = SLASH)

\* filepath.Join: the elements from the first non-empty one on, joined and cleaned
RECURSIVE Join(_)
Join(elems) ==
    IF Len(elems) = 0 THEN <<>>
    ELSE IF Head(elems) # <<>> THEN Clean(JoinSep(elems))
    ELSE Join(Tail(elems))

\* index of the last separator of path, 0 when it has none
LastSlash(path) ==
    IF ~Contains(path, SLASH) THEN 0
    ELSE CHOOSE k \in 1..Len(path) :
             path[k] = SLASH /\ \A j \in (k + 1)..Len(path) : path[j] # SLASH

\* path without its trailing separators
RECURSIVE StripTrailingSlashes(_)
StripTrailingSlashes(path) ==
    IF Len(path) > 0 /\ path[Len(path)] = SLASH
    THEN StripTrailingSlashes(SubSeq(path, 1, Len(path) - 1))
    ELSE path

\* the last element of a path that has no trailing separator
LastElem(p) == SubSeq(p, LastSlash(p) + 1, Len(p))

BaseOf(b) == IF b = <<>> THEN ROOTSTR ELSE b

\* filepath.Base
Base(path) ==
    IF path = <<>> THEN DOT ELSE BaseOf(LastElem(StripTrailingSlashes(path)))

\* filepath.Dir
Dir(path) == Clean(SubSeq(path, 1, LastSlash(path)))

----------------------------------------------------------------------------
(* archive/tar: the type flags, and the headers the streams may hold *)

TypeReg == "0"
TypeRegA == "NUL"
TypeLink == "1"
TypeSymlink == "2"
TypeChar == "3"
TypeBlock == "4"
TypeDir == "5"
TypeFifo == "6"
\* a type flag that is none of the above (tar.TypeXGlobalHeader)
TypeOther == "g"

whiteoutPrefix == <<".", "w", "h", ".">>

\* i.dirPath: the destination root
DirPath == <<"/", "d">>

\* the owner and group that the headers of the images store
HeaderUid == 501
HeaderGid == 20

Hdr(name, typeflag, mode) ==
    [Name |-> name, Typeflag |-> typeflag, Mode |-> mode,
     Uid |-> HeaderUid, Gid |-> HeaderGid]

\* The headers a layer's stream is made of: a directory, regular files (one
\* of them named with back-slashes), a symbolic link, the whiteout of "a", a
\* character device, and an entry of an unsupported type.  Modes are 0755,
\* 0600, 0644, 0750 and 0777.
Headers ==
    { Hdr(<<"a">>, TypeDir, 493),
      Hdr(<<"a">>, TypeReg, 384),
      Hdr(<<"a", "/", "b">>, TypeReg, 420),
      Hdr(<<"a", "\\", "b">>, TypeReg, 488),
      Hdr(<<"a", "/", "b">>, TypeSymlink, 511),
      Hdr(<<".", "w", "h", ".", "a">>, TypeReg, 384),
      Hdr(<<"a">>, TypeChar, 420),
      Hdr(<<"a">>, TypeOther, 420) }

\* the streams of at most n headers
StreamsUpTo(n) == UNION { [1..k -> Headers] : k \in 0..n }

\* the images of exactly l layers holding at most n headers in all
RECURSIVE StacksOf(_, _)
StacksOf(l, n) ==
    IF l = 0 THEN { <<>> }
    ELSE UNION { { <<first>> \o rest : rest \in StacksOf(l - 1, n - Len(first)) }
                 : first \in StreamsUpTo(n) }

Stacks == UNION { StacksOf(l, MaxEntries) : l \in 0..MaxLayers }

----------------------------------------------------------------------------
(* the filesystem *)

\* a directory (its owner is not followed: no call of the program changes it)
DirObj == [type |-> "dir", perm |-> 511, data |-> <<>>]

\* a regular file: its permission bits, its bytes and its owner and group
FileObj(perm, data, owner) ==
    [type |-> "file", perm |-> perm, data |-> data, owner |-> owner]

\* the user and group of a process that does not run as root
UserId == 1000

\* the user and group of the process, which own the files it creates
ProcessOwner == IF shouldChown THEN <<0, 0>> ELSE <<UserId, UserId>>

\* the proper ancestors of a cleaned absolute path
RECURSIVE Ancestors(_)
AncestorsVia(path, d) == IF d = path THEN {} ELSE {d} \cup Ancestors(d)

Ancestors(path) == AncestorsVia(path, Dir(path))

\* path is q or lies beneath q
Under(path, q) == path = q \/ q \in Ancestors(path)

\* ENOTDIR: a component of the path's directory is not a directory
NotDirAncestor(f, path) ==
    \E a \in Ancestors(path) : a \in DOMAIN f /\ f[a].type # "dir"

\* os.Lstat returns no error: an object is at the path and the host does not
\* make the call fail
LstatOk(f, path, fault) == fault # "Lstat" /\ path \in DOMAIN f

\* os.RemoveAll fails on its own (it returns nil for a path that does not exist)
RemoveAllFails(f, path) == NotDirAncestor(f, path)

\* the filesystem after os.RemoveAll(path) succeeded
RemoveAll(f, path) ==
    [q \in { q \in DOMAIN f : ~Under(q, path) } |-> f[q]]

\* os.MkdirAll fails on its own: path or an ancestor exists and is no directory
MkdirAllFails(f, path) ==
    \E a \in Ancestors(path) \cup {path} : a \in DOMAIN f /\ f[a].type # "dir"

\* the filesystem after os.MkdirAll(path, 0777) succeeded
MkdirAll(f, path) ==
    [q \in DOMAIN f \cup Ancestors(path) \cup {path} |->
        IF q \in DOMAIN f THEN f[q] ELSE DirObj]

\* the permission bits of the file that apply to the process: the owner's
\* when the process is the file's user, the group's when it is in the file's
\* group, the others' otherwise
AccessBits(obj) ==
    IF obj.owner[1] = ProcessOwner[1] THEN (obj.perm \div 64) % 8
    ELSE IF obj.owner[2] = ProcessOwner[2] THEN (obj.perm \div 8) % 8
    ELSE obj.perm % 8

\* the process may open the file for reading and writing (O_RDWR): root may
\* always, another user needs the read and the write bit
MayReadWrite(obj) == shouldChown \/ AccessBits(obj) \in {6, 7}

\* os.OpenFile(path, O_RDWR|O_CREATE|O_TRUNC, perm) fails on its own: the path
\* is a directory, its directory is missing or no directory, or the file that
\* is there denies reading or writing to the process
OpenFileFails(f, path) ==
    \/ path \in DOMAIN f /\ f[path].type = "dir"
    \/ Dir(path) \notin DOMAIN f
    \/ NotDirAncestor(f, path)
    \/ path \in DOMAIN f /\ f[path].type = "file" /\ ~MayReadWrite(f[path])

\* the filesystem after OpenFile succeeded: the file is created empty with
\* the permission asked for and the process as its owner, or the file that is
\* there is emptied and keeps its permission and owner
OpenFile(f, path, perm) ==
    [q \in DOMAIN f \cup {path} |->
        IF q # path THEN f[q]
        ELSE IF path \in DOMAIN f THEN FileObj(f[path].perm, <<>>, f[path].owner)
        ELSE FileObj(perm, <<>>, ProcessOwner)]

\* what a file holds when io.Copy stopped with an error: a part of the bytes
Torn(data) == Append(data, "torn")

\* the filesystem after OpenFile created (or truncated) the file and io.Copy
\* wrote the bytes data into it
WriteFile(f, path, perm, data) ==
    [OpenFile(f, path, perm) EXCEPT ![path].data = data]

\* the filesystem after os.Lchown(path, uid, gid) succeeded
Lchown(f, path, uid, gid) == [f EXCEPT ![path].owner = <<uid, gid>>]

----------------------------------------------------------------------------
(* dir_image.go *)

\* hydrateFilepath
hydrateFilepath(fPath) ==
    Join(<<DirPath, IF Contains(fPath, BACKSLASH)
                    THEN Join(Split(fPath, BACKSLASH))
                    ELSE Join(Split(fPath, SLASH))>>)

\* inWhiteoutDir
RECURSIVE inWhiteoutDir(_, _)
\* lines 146-153: the loop body, dirname being filepath.Dir(file)
inWhiteoutDirStep(fm, file, dirname) ==
    IF file = dirname THEN FALSE
    ELSE IF dirname \in fm THEN TRUE
    ELSE inWhiteoutDir(fm, dirname)

inWhiteoutDir(fm, file) ==
    IF file = <<>> THEN FALSE ELSE inWhiteoutDirStep(fm, file, Dir(file))

\* mode & 0700
UserPermission(mode) == ((mode % 512) \div 64) * 64

\* PermMode without the test of the group and other bits
PermModeFromOwnerOnly(mode) ==
    UserPermission(mode) + UserPermission(mode) \div 8
                         + UserPermission(mode) \div 64

\* the permission extractTarEntry asks for
PermMode(mode) ==
    IF mode % 64 > 0 THEN mode
    ELSE UserPermission(mode) + UserPermission(mode) \div 8
                              + UserPermission(mode) \div 64

\* what a call of the loop body or of extractTarEntry leaves behind:
\* the filesystem, the fileMap, the paths handed to mutating filesystem
\* calls, and how control leaves ("continue", "return nil" or "return err")
Outcome(f, fm, paths, out, err) ==
    [fs |-> f, fileMap |-> fm, touched |-> paths, out |-> out, err |-> err]

\* the characters of a name as one string
RECURSIVE String(_)
String(name) == IF Len(name) = 0 THEN "" ELSE Head(name) \o String(Tail(name))

\* line 210: fmt.Errorf("Unsupported tar entry type '%c' for file '%s'", ...)
UnsupportedError(header) ==
    "Unsupported tar entry type '" \o header.Typeflag \o "' for file '"
        \o String(header.Name) \o "'"

\* lines 213-221 of extractTarEntry: os.Lchown when the process runs as root,
\* then lchtimes, f2 being the filesystem with the file written and closed
restoreOwnerAndTimes(f2, fm, header, fault, path, parent) ==
    IF shouldChown /\ fault = "Lchown"
    THEN Outcome(f2, fm, {parent, path}, "return err", "Lchown")
    ELSE Outcome(IF shouldChown THEN Lchown(f2, path, header.Uid, header.Gid) ELSE f2,
                 fm, {parent, path},
                 IF fault = "Chtimes" THEN "return err" ELSE "continue",
                 IF fault = "Chtimes" THEN "Chtimes" ELSE "nil")

\* lines 184-199 of extractTarEntry and what follows the switch: os.OpenFile,
\* io.Copy, file.Close, then os.Lchown and lchtimes
extractRegular(f1, fm, header, data, fault, path, parent) ==
    IF fault = "OpenFile" \/ OpenFileFails(f1, path)
    THEN Outcome(f1, fm, {parent, path}, "return err", "OpenFile")
    ELSE IF fault = "Copy"
    THEN Outcome(WriteFile(f1, path, PermMode(header.Mode), Torn(data)), fm,
                 {parent, path}, "return err", "Copy")
    ELSE IF fault = "Close"
    THEN Outcome(WriteFile(f1, path, PermMode(header.Mode), data), fm,
                 {parent, path}, "return err", "Close")
    ELSE restoreOwnerAndTimes(WriteFile(f1, path, PermMode(header.Mode), data),
                              fm, header, fault, path, parent)

\* extractByType with an unknown type flag skipped like a device
extractByTypeSkippingUnknown(f1, fm, header, data, fault, path, parent) ==
    CASE header.Typeflag = TypeDir ->
            Outcome(f1, fm, {parent}, "continue", "nil")
      [] header.Typeflag \in {TypeReg, TypeRegA} ->
            extractRegular(f1, fm, header, data, fault, path, parent)
      [] OTHER ->
            Outcome(f1, fm, {parent}, "continue", "nil")

\* extractByType with the link and device cases creating the object instead
\* of skipping it
extractByTypeCreatingLinks(f1, fm, header, data, fault, path, parent) ==
    CASE header.Typeflag = TypeDir ->
            Outcome(f1, fm, {parent}, "continue", "nil")
      [] header.Typeflag \in {TypeReg, TypeRegA} ->
            extractRegular(f1, fm, header, data, fault, path, parent)
      [] header.Typeflag \in {TypeLink, TypeSymlink, TypeChar, TypeBlock, TypeFifo} ->
            Outcome([q \in DOMAIN f1 \cup {path} |->
                        IF q = path
                        THEN [type |-> "link", perm |-> header.Mode, data |-> data]
                        ELSE f1[q]],
                    fm, {parent, path}, "continue", "nil")
      [] OTHER ->
            Outcome(f1, fm, {parent}, "return err", UnsupportedError(header))

\* lines 180-221 of extractTarEntry: the switch on the type flag and what
\* follows it, f1 being the filesystem after os.MkdirAll(filepath.Dir(path))
extractByType(f1, fm, header, data, fault, path, parent) ==
    CASE header.Typeflag = TypeDir ->
            Outcome(f1, fm, {parent}, "continue", "nil")
      [] header.Typeflag \in {TypeReg, TypeRegA} ->
            extractRegular(f1, fm, header, data, fault, path, parent)
      [] header.Typeflag \in {TypeLink, TypeSymlink} ->
            Outcome(f1, fm, {parent}, "continue", "nil")
      [] header.Typeflag \in {TypeChar, TypeBlock, TypeFifo} ->
            Outcome(f1, fm, {parent}, "continue", "nil")
      [] OTHER ->
            Outcome(f1, fm, {parent}, "return err", UnsupportedError(header))

\* lines 175-178 of extractTarEntry: os.MkdirAll(filepath.Dir(path), 0777)
extractAt(f, fm, header, data, fault, path, parent) ==
    IF fault = "MkdirAll" \/ MkdirAllFails(f, parent)
    THEN Outcome(f, fm, {parent}, "return err", "MkdirAll")
    ELSE extractByType(MkdirAll(f, parent), fm, header, data, fault, path, parent)

\* extractTarEntry(header, input); data is what input yields, fault the
\* filesystem call that the host makes fail during this call ("none": no call)
extractTarEntry(f, fm, header, data, fault) ==
    extractAt(f, fm, header, data, fault, hydrateFilepath(header.Name),
              Dir(hydrateFilepath(header.Name)))

\* lines 104-113 of writeLayer: the whiteout, target being the path it removes
whiteoutEntry(f, fm, base, target, fault) ==
    IF fault = "RemoveAll" \/ RemoveAllFails(f, target)
    THEN Outcome(f, fm, {target}, "return nil", "nil")
    ELSE Outcome(RemoveAll(f, target), fm \cup {base}, {target}, "continue", "nil")

\* the outcome of extractTarEntry, with the path writeLayer removed before it
AfterReplace(ex, path) ==
    Outcome(ex.fs, ex.fileMap, ex.touched \cup {path}, ex.out, ex.err)

\* replaceAndExtract with a check of the seen-names record: a name that a
\* newer layer wrote already is skipped
replaceAndExtractUnlessSeen(f, fm, hdr, data, fault, path, replace) ==
    IF hdr.Name \in fm
    THEN Outcome(f, fm, {}, "continue", "nil")
    ELSE IF replace
    THEN IF fault = "RemoveAll" \/ RemoveAllFails(f, path)
         THEN Outcome(f, fm, {path}, "return err", "RemoveAll")
         ELSE AfterReplace(extractTarEntry(RemoveAll(f, path), fm \cup {hdr.Name},
                                           hdr, data, fault), path)
    ELSE extractTarEntry(f, fm \cup {hdr.Name}, hdr, data, fault)

\* lines 124-135 of writeLayer: the existing object is removed unless a
\* directory entry meets a directory; then fileMap[hdr.Name] = true and
\* extractTarEntry
replaceAndExtract(f, fm, hdr, data, fault, path, replace) ==
    IF replace
    THEN IF fault = "RemoveAll" \/ RemoveAllFails(f, path)
         THEN Outcome(f, fm, {path}, "return err", "RemoveAll")
         ELSE AfterReplace(extractTarEntry(RemoveAll(f, path), fm \cup {hdr.Name},
                                           hdr, data, fault), path)
    ELSE extractTarEntry(f, fm \cup {hdr.Name}, hdr, data, fault)

\* writeLayerAt removing the existing object only when it is no directory
writeLayerAtKeepingDirs(f, fm, hdr, data, fault, path, base) ==
    IF HasPrefix(base, whiteoutPrefix)
    THEN whiteoutEntry(f, fm, base,
                       Join(<<Dir(path), TrimPrefix(base, whiteoutPrefix)>>), fault)
    ELSE IF inWhiteoutDir(fm, path)
    THEN Outcome(f, fm, {}, "continue", "nil")
    ELSE IF LstatOk(f, path, fault) /\ f[path].type = "dir" /\ hdr.Name = DOT
    THEN Outcome(f, fm, {}, "continue", "nil")
    ELSE replaceAndExtract(f, fm, hdr, data, fault, path,
                           LstatOk(f, path, fault) /\ f[path].type # "dir")

\* lines 98-135 of writeLayer, path being i.hydrateFilepath(hdr.Name) and
\* base filepath.Base(path)
writeLayerAt(f, fm, hdr, data, fault, path, base) ==
    IF HasPrefix(base, whiteoutPrefix)
    THEN whiteoutEntry(f, fm, base,
                       Join(<<Dir(path), TrimPrefix(base, whiteoutPrefix)>>), fault)
    ELSE IF inWhiteoutDir(fm, path)
    THEN Outcome(f, fm, {}, "continue", "nil")
    ELSE IF LstatOk(f, path, fault) /\ f[path].type = "dir" /\ hdr.Name = DOT
    THEN Outcome(f, fm, {}, "continue", "nil")
    ELSE replaceAndExtract(f, fm, hdr, data, fault, path,
                           /\ LstatOk(f, path, fault)
                           /\ ~(f[path].type = "dir" /\ hdr.Typeflag = TypeDir))

\* one pass of writeLayer's loop body for the header hdr that
\* tarReader.Next returned
writeLayerEntry(f, fm, hdr, data, fault) ==
    writeLayerAt(f, fm, hdr, data, fault, hydrateFilepath(hdr.Name),
                 Base(hydrateFilepath(hdr.Name)))

\* line 120 is reached with an object at the path and os.Lstat returns an error
LstatMissedAt(f, fm, fault, path) ==
    /\ fault = "Lstat"
    /\ ~HasPrefix(Base(path), whiteoutPrefix)
    /\ ~inWhiteoutDir(fm, path)
    /\ path \in DOMAIN f

LstatMissed(f, fm, hdr, fault) ==
    LstatMissedAt(f, fm, fault, hydrateFilepath(hdr.Name))

----------------------------------------------------------------------------
(* AsDirectory *)

\* the bytes of a file that was there before the run
OldData == <<0, 0>>

\* what the host holds before the run: the destination with the tree of an
\* earlier extraction, /d/a/b, made by a process that did not run as root
InitialFs ==
    [q \in { ROOTSTR, DirPath, DirPath \o <<"/", "a">>,
             DirPath \o <<"/", "a", "/", "b">> } |->
        IF q = DirPath \o <<"/", "a", "/", "b">> THEN FileObj(420, OldData, <<UserId, UserId>>)
        ELSE DirObj]

Init ==
    /\ fs = InitialFs
    /\ fileMap = {}
    /\ layers = <<>>
    /\ pc = "start"
    /\ idx = 0
    /\ pos = 0
    /\ deferred = <<>>
    /\ closed = <<>>
    /\ calls = <<>>
    /\ touched = {}
    /\ ret = "running"
    /\ runs = <<>>
    /\ shouldChown \in BOOLEAN
    /\ unseen = {}

\* the deferred Close calls in the order a return runs them: last deferred first
RECURSIVE CloseCalls(_)
CloseCalls(d) ==
    IF Len(d) = 0 THEN <<>>
    ELSE <<<<"Close", d[Len(d)], 0>>>> \o CloseCalls(SubSeq(d, 1, Len(d) - 1))

\* Return with the streams closed on the success path only
ReturnClosingOnSuccess(v, cs, d) ==
    /\ pc' = "done"
    /\ ret' = v
    /\ calls' = IF v = "nil" THEN cs \o CloseCalls(d) ELSE cs
    /\ closed' = [i \in DOMAIN closed |->
                    IF v = "nil"
                    THEN closed[i] + Cardinality({k \in 1..Len(d) : d[k] = i})
                    ELSE closed[i]]
    /\ deferred' = <<>>

\* AsDirectory returns v, having made the calls cs: the deferred Close calls run
Return(v, cs, d) ==
    /\ pc' = "done"
    /\ ret' = v
    /\ calls' = cs \o CloseCalls(d)
    /\ closed' = [i \in DOMAIN closed |->
                    closed[i] + Cardinality({k \in 1..Len(d) : d[k] = i})]
    /\ deferred' = <<>>

\* ResetDir without the os.RemoveAll
ResetDirKeepingTree ==
    /\ pc = "start"
    /\ \E fault \in {"none", "MkdirAll"} :
         /\ touched' = touched \cup {DirPath}
         /\ IF fault = "MkdirAll" \/ MkdirAllFails(fs, DirPath)
            THEN /\ fs' = fs
                 /\ Return("Creating output directory", calls, deferred)
            ELSE /\ fs' = MkdirAll(fs, DirPath)
                 /\ pc' = "layers"
                 /\ UNCHANGED <<ret, calls, closed, deferred>>
    /\ UNCHANGED <<fileMap, layers, idx, pos>>
    /\ UNCHANGED <<runs, shouldChown, unseen>>

\* lines 38-46: os.RemoveAll(i.dirPath), os.MkdirAll(i.dirPath, 0777); faults
\* holds the calls that the host may make fail on its own
ResetDirWith(faults) ==
    /\ pc = "start"
    /\ \E fault \in {"none"} \cup faults :
         /\ touched' = touched \cup {DirPath}
         /\ IF fault = "RemoveAll" \/ RemoveAllFails(fs, DirPath)
            THEN /\ fs' = fs
                 /\ Return("Removing output directory", calls, deferred)
            ELSE IF fault = "MkdirAll" \/ MkdirAllFails(RemoveAll(fs, DirPath), DirPath)
            THEN /\ fs' = RemoveAll(fs, DirPath)
                 /\ Return("Creating output directory", calls, deferred)
            ELSE /\ fs' = MkdirAll(RemoveAll(fs, DirPath), DirPath)
                 /\ pc' = "layers"
                 /\ UNCHANGED <<ret, calls, closed, deferred>>
    /\ UNCHANGED <<fileMap, layers, idx, pos>>
    /\ UNCHANGED <<runs, shouldChown, unseen>>

ResetDir == ResetDirWith({"RemoveAll", "MkdirAll"})

\* lines 48-58: i.img.Layers(), the empty fileMap, the loop's first test;
\* stacks holds the layer stacks the image may be made of
GetLayersOf(stacks, faults) ==
    /\ pc = "layers"
    /\ \E fault \in {"none"} \cup faults :
         IF fault = "Layers"
         THEN /\ Return("Layers", Append(calls, <<"LayersErr", 0, 0>>), deferred)
              /\ UNCHANGED <<layers, idx, fileMap>>
         ELSE \E stack \in stacks :
              /\ layers' = stack
              /\ fileMap' = {}
              /\ idx' = Len(stack)
              /\ IF Len(stack) = 0
                 THEN /\ Return("nil", Append(calls, <<"Layers", 0, 0>>), deferred)
                 ELSE /\ pc' = "digest"
                      /\ calls' = Append(calls, <<"Layers", Len(stack), 0>>)
                      /\ closed' = [i \in 1..Len(stack) |-> 0]
                      /\ UNCHANGED <<ret, deferred>>
    /\ UNCHANGED <<fs, pos, touched>>
    /\ UNCHANGED <<runs, shouldChown, unseen>>

\* the image is the same in every call of AsDirectory on one DirImage
StacksOfImage(stacks) == IF runs = <<>> THEN stacks ELSE { runs[1].layers }

GetLayers == GetLayersOf(StacksOfImage(Stacks), {"Layers"})

\* Digest with the error of imgLayer.Digest() left unchecked
DigestUnchecked ==
    /\ pc = "digest"
    /\ \E fault \in {"none", "Digest"} :
         /\ pc' = "logf"
         /\ calls' = Append(calls, <<IF fault = "Digest" THEN "DigestErr" ELSE "Digest",
                                     idx, 0>>)
         /\ UNCHANGED <<ret, closed, deferred>>
    /\ UNCHANGED <<fs, fileMap, layers, idx, pos, touched>>
    /\ UNCHANGED <<runs, shouldChown, unseen>>

\* lines 59-63: imgLayer.Digest()
DigestWith(faults) ==
    /\ pc = "digest"
    /\ \E fault \in {"none"} \cup faults :
         IF fault = "Digest"
         THEN Return("Digest", Append(calls, <<"DigestErr", idx, 0>>), deferred)
         ELSE /\ pc' = "logf"
              /\ calls' = Append(calls, <<"Digest", idx, 0>>)
              /\ UNCHANGED <<ret, closed, deferred>>
    /\ UNCHANGED <<fs, fileMap, layers, idx, pos, touched>>
    /\ UNCHANGED <<runs, shouldChown, unseen>>

Digest == DigestWith({"Digest"})

\* Logf with the position counted from zero
LogfFromZero ==
    /\ pc = "logf"
    /\ pc' = "uncompressed"
    /\ calls' = Append(calls, <<"Logf", idx, Len(layers) - idx, Len(layers)>>)
    /\ UNCHANGED <<fs, fileMap, layers, idx, pos, deferred, closed, touched, ret>>
    /\ UNCHANGED <<runs, shouldChown, unseen>>

\* line 65: i.logger.Logf with the layer's position and the number of layers
Logf ==
    /\ pc = "logf"
    /\ pc' = "uncompressed"
    /\ calls' = Append(calls, <<"Logf", idx, Len(layers) - idx + 1, Len(layers)>>)
    /\ UNCHANGED <<fs, fileMap, layers, idx, pos, deferred, closed, touched, ret>>
    /\ UNCHANGED <<runs, shouldChown, unseen>>

\* lines 67-72: imgLayer.Uncompressed(), defer layerStream.Close()
UncompressedWith(faults) ==
    /\ pc = "uncompressed"
    /\ \E fault \in {"none"} \cup faults :
         IF fault = "Uncompressed"
         THEN /\ Return("Uncompressed", Append(calls, <<"UncompressedErr", idx, 0>>),
                        deferred)
              /\ UNCHANGED pos
         ELSE /\ pc' = "writeLayer"
              /\ pos' = 0
              /\ deferred' = Append(deferred, idx)
              /\ calls' = Append(calls, <<"Uncompressed", idx, 0>>)
              /\ UNCHANGED <<ret, closed>>
    /\ UNCHANGED <<fs, fileMap, layers, idx, touched>>
    /\ UNCHANGED <<runs, shouldChown, unseen>>

Uncompressed == UncompressedWith({"Uncompressed"})

\* lines 74-78: writeLayer returned nil; the loop goes on to the next older
\* layer, or AsDirectory returns nil after the oldest
NextLayer(cs) ==
    /\ idx' = idx - 1
    /\ IF idx = 1
       THEN Return("nil", cs, deferred)
       ELSE /\ pc' = "digest"
            /\ calls' = cs
            /\ UNCHANGED <<ret, closed, deferred>>

\* the loop body ran on header number pos + 1 and left the outcome o
Applied(o, cs) ==
    /\ fs' = o.fs
    /\ fileMap' = o.fileMap
    /\ touched' = touched \cup o.touched
    /\ pos' = pos + 1
    /\ CASE o.out = "continue" ->
             /\ calls' = cs
             /\ UNCHANGED <<pc, idx, ret, closed, deferred>>
         [] o.out = "return nil" ->
             NextLayer(Append(cs, <<"ReturnNil", idx, pos + 1>>))
         [] o.out = "return err" ->
             /\ Return(o.err, Append(cs, <<"ReturnErr", idx, pos + 1>>), deferred)
             /\ UNCHANGED idx

\* lines 88-136: one turn of writeLayer's loop: tarReader.Next(), then the
\* loop body on the header it returned
NextEntryWith(faults) ==
    /\ pc = "writeLayer"
    /\ \E fault \in {"none"} \cup faults :
         IF fault = "Next"
         THEN /\ Return("Next", calls \o <<<<"NextErr", idx, pos>>,
                                           <<"ReturnErr", idx, pos>>>>, deferred)
              /\ UNCHANGED <<fs, fileMap, touched, idx, pos, unseen>>
         ELSE IF pos = Len(layers[idx])
         THEN /\ NextLayer(calls \o <<<<"NextEOF", idx, pos>>,
                                      <<"ReturnNil", idx, pos>>>>)
              /\ UNCHANGED <<fs, fileMap, touched, pos, unseen>>
         ELSE /\ Applied(writeLayerEntry(fs, fileMap, layers[idx][pos + 1],
                                         <<idx, pos + 1>>, fault),
                         Append(calls, <<"Next", idx, pos + 1>>))
              /\ unseen' = IF LstatMissed(fs, fileMap, layers[idx][pos + 1], fault)
                           THEN unseen \cup {<<idx, pos + 1>>}
                           ELSE unseen
    /\ UNCHANGED layers
    /\ UNCHANGED <<runs, shouldChown>>

NextEntry ==
    NextEntryWith({"Next", "Lstat", "RemoveAll", "MkdirAll", "OpenFile", "Copy",
                   "Close", "Lchown", "Chtimes"})

Next ==
    \/ ResetDir
    \/ GetLayers
    \/ Digest
    \/ Logf
    \/ Uncompressed
    \/ NextEntry

Spec == Init /\ [][Next]_vars

----------------------------------------------------------------------------
(* AsDirectory on a host and an image that make no call fail on their own,
   and called again on the same image and the same destination *)

\* regular files (one inside the root, one beside the root, one in a
\* directory of that name beside the root) and the whiteout of a/b
SoundHeaders ==
    { Hdr(<<"a">>, TypeReg, 420),
      Hdr(<<"a", "/", ".", "w", "h", ".", "b">>, TypeReg, 384),
      Hdr(<<".", ".", "/", "x">>, TypeReg, 420),
      Hdr(<<".", ".", "/", "x", "/", "y">>, TypeReg, 420) }

\* the streams of at most n headers out of hs
StreamsOver(hs, n) == UNION { [1..k -> hs] : k \in 0..n }

\* the images of exactly l layers holding at most n headers out of hs in all
RECURSIVE StacksOver(_, _, _)
StacksOver(hs, l, n) ==
    IF l = 0 THEN { <<>> }
    ELSE UNION { { <<first>> \o rest : rest \in StacksOver(hs, l - 1, n - Len(first)) }
                 : first \in StreamsOver(hs, n) }

SoundStacks ==
    UNION { StacksOver(SoundHeaders, l, MaxSoundEntries) : l \in 0..MaxLayers }

\* line 37: AsDirectory is called again after it returned; its locals are new,
\* the host keeps what the call before left
Again ==
    /\ pc = "done"
    /\ Len(runs) + 1 < MaxRuns
    /\ runs' = Append(runs, [ret |-> ret, fs |-> fs, layers |-> layers])
    /\ pc' = "start"
    /\ ret' = "running"
    /\ layers' = <<>>
    /\ fileMap' = {}
    /\ idx' = 0
    /\ pos' = 0
    /\ deferred' = <<>>
    /\ closed' = <<>>
    /\ calls' = <<>>
    /\ touched' = {}
    /\ unseen' = {}
    /\ UNCHANGED <<fs, shouldChown>>

ResetDirSound == ResetDirWith({})
GetLayersSound == GetLayersOf(StacksOfImage(SoundStacks), {})
DigestSound == DigestWith({})
UncompressedSound == UncompressedWith({})
NextEntrySound == NextEntryWith({})

NextSound ==
    \/ ResetDirSound
    \/ GetLayersSound
    \/ DigestSound
    \/ Logf
    \/ UncompressedSound
    \/ NextEntrySound
    \/ Again

SpecSound == Init /\ [][NextSound]_vars

----------------------------------------------------------------------------
(* AsDirectory on images whose entries have names that climb out of the
   root or look absolute *)

\* regular files: "../x" and its back-slash spelling, which climb out of the
\* root, "/d/a", which spells a path of the destination, and "a"
EscapeHeaders ==
    { Hdr(<<".", ".", "/", "x">>, TypeReg, 420),
      Hdr(<<".", ".", "\\", "x">>, TypeReg, 420),
      Hdr(<<"/", "d", "/", "a">>, TypeReg, 420),
      Hdr(<<"a">>, TypeReg, 384) }

EscapeStacks == UNION { StacksOver(EscapeHeaders, l, MaxEntries) : l \in 0..MaxLayers }

GetLayersEscape == GetLayersOf(StacksOfImage(EscapeStacks), {"Layers"})

NextEscape ==
    \/ ResetDir
    \/ GetLayersEscape
    \/ Digest
    \/ Logf
    \/ Uncompressed
    \/ NextEntry

SpecEscape == Init /\ [][NextEscape]_vars

----------------------------------------------------------------------------
(* AsDirectory on images whose entries name the root *)

\* the root placeholder ".", the directories "./" and "a/..", the whiteout
\* ".wh." and a regular file "a"
RootHeaders ==
    { Hdr(<<".">>, TypeDir, 493),
      Hdr(<<".", "/">>, TypeDir, 493),
      Hdr(<<"a", "/", ".", ".">>, TypeDir, 493),
      Hdr(<<".", "w", "h", ".">>, TypeReg, 384),
      Hdr(<<"a">>, TypeReg, 420) }

RootStacks == UNION { StacksOver(RootHeaders, l, MaxEntries) : l \in 0..MaxLayers }

GetLayersRoot == GetLayersOf(StacksOfImage(RootStacks), {"Layers"})

NextRoot ==
    \/ ResetDir
    \/ GetLayersRoot
    \/ Digest
    \/ Logf
    \/ Uncompressed
    \/ NextEntry

SpecRoot == Init /\ [][NextRoot]_vars

----------------------------------------------------------------------------
(* AsDirectory on the images of one layer that holds one regular file "a",
   of every stored mode *)

ModeStacks == { << <<Hdr(<<"a">>, TypeReg, m)>> >> : m \in 0..MaxMode }

GetLayersModes == GetLayersOf(StacksOfImage(ModeStacks), {"Layers"})

NextModes ==
    \/ ResetDir
    \/ GetLayersModes
    \/ Digest
    \/ Logf
    \/ Uncompressed
    \/ NextEntry

SpecModes == Init /\ [][NextModes]_vars

----------------------------------------------------------------------------
(* the shape of the state *)

\* every object that exists lies in a directory that exists
FsWellFormed ==
    \A q \in DOMAIN fs :
        \A a \in Ancestors(q) : a \in DOMAIN fs /\ fs[a].type = "dir"

TypeOK ==
    /\ FsWellFormed
    /\ \A q \in DOMAIN fs : fs[q].type \in {"dir", "file"}
    /\ pc \in {"start", "layers", "digest", "logf", "uncompressed", "writeLayer", "done"}
    /\ (pc = "done") = (ret # "running")
    /\ idx \in 0..Len(layers)
    /\ pc \in {"digest", "logf", "uncompressed", "writeLayer"} => idx \in 1..Len(layers)
    /\ pc = "writeLayer" => pos \in 0..Len(layers[idx])
    /\ shouldChown \in BOOLEAN
    /\ \A e \in unseen : e[1] \in 1..Len(layers) /\ e[2] \in 1..Len(layers[e[1]])
    /\ \A q \in DOMAIN fs :
           fs[q].type = "file" =>
               fs[q].owner \in {<<0, 0>>, <<UserId, UserId>>, <<HeaderUid, HeaderGid>>}

----------------------------------------------------------------------------
(* vocabulary of the properties *)

Range(seq) == { seq[k] : k \in 1..Len(seq) }

\* the entries of the image: layer i, header j
Entries == { <<i, j>> : i \in 1..Len(layers), j \in 1..MaxEntries + 1 } \cap
           { e \in (1..Len(layers)) \X (1..MaxEntries + 1) : e[2] <= Len(layers[e[1]]) }

HeaderOf(e) == layers[e[1]][e[2]]

\* the path the entry's name resolves to
PathOf(e) == hydrateFilepath(HeaderOf(e).Name)

\* tarReader.Next returned the entry and the loop body ran on it
WasRead(e) == <<"Next", e[1], e[2]>> \in Range(calls)

\* writeLayer read the layer's stream to its end
Drained(i) == <<"NextEOF", i, Len(layers[i])>> \in Range(calls)

Succeeded == pc = "done" /\ ret = "nil"

Failed == pc = "done" /\ ret # "nil"

\* the entry's name is a whiteout's: its last element starts with ".wh."
IsWhiteout(e) == HasPrefix(Base(PathOf(e)), whiteoutPrefix)

\* the entry is the whiteout of path: ".wh." + the path's base name, in the
\* path's directory
IsWhiteoutOf(e, path) ==
    PathOf(e) = Join(<<Dir(path), whiteoutPrefix \o Base(path)>>)

IsRegular(e) == HeaderOf(e).Typeflag \in {TypeReg, TypeRegA}

IsSkippedType(e) ==
    HeaderOf(e).Typeflag \in {TypeLink, TypeSymlink, TypeChar, TypeBlock, TypeFifo}

\* the paths of the host that hold a regular file
Files == { q \in DOMAIN fs : fs[q].type = "file" }

\* the entry's bytes are on disk
Materialized(e) == \E q \in Files : fs[q].data = e

----------------------------------------------------------------------------
(* C1: containment.  Every path that AsDirectory creates, writes or removes
   is the destination root or lies beneath it. *)
C1_Containment == \A q \in touched : Under(q, DirPath)

(* C2: a containment violation is fatal.  Once the loop body has run on an
   entry whose name resolves outside the destination root, AsDirectory has
   returned an error and the entry's bytes are not on disk. *)
C2_EscapeIsFatal ==
    \A e \in Entries :
        WasRead(e) /\ ~Under(PathOf(e), DirPath) => Failed /\ ~Materialized(e)

(* C3: whiteout precedence.  When AsDirectory has succeeded, having read
   every layer to its end, and a newer layer holds the whiteout of a path
   for which an older layer holds a regular file, no file is at that path. *)
C3_WhiteoutPrecedence ==
    Succeeded /\ (\A i \in 1..Len(layers) : Drained(i)) =>
        \A w \in Entries, e \in Entries :
            /\ w[1] > e[1]
            /\ IsRegular(e) /\ ~IsWhiteout(e)
            /\ IsWhiteoutOf(w, PathOf(e))
            => PathOf(e) \notin Files

(* C4: ancestor-deletion cascade.  When a newer layer that holds the
   whiteout of a directory has been read to its end, no entry of an older
   layer whose path lies strictly beneath that directory is materialized. *)
C4_AncestorCascade ==
    \A w \in Entries, e \in Entries :
        /\ w[1] > e[1]
        /\ Drained(w[1]) /\ WasRead(e)
        /\ ~IsWhiteout(e)
        /\ \E d \in Ancestors(PathOf(e)) : IsWhiteoutOf(w, d)
        => ~Materialized(e)

\* the loop body runs on the entry e, a link, a device or a FIFO
SkipsEntry(e) ==
    /\ pc = "writeLayer" /\ pos < Len(layers[idx]) /\ e = <<idx, pos + 1>>
    /\ pos' = pos + 1
    /\ IsSkippedType(e)

\* the step creates nothing but directories above the entry's path and
\* changes no object that stays
CreatesParentsOnly(e) ==
    /\ \A q \in DOMAIN fs' \ DOMAIN fs :
           fs'[q] = DirObj /\ q \in Ancestors(PathOf(e))
    /\ \A q \in DOMAIN fs' \cap DOMAIN fs : fs'[q] = fs[q]

\* the host holds directories and regular files only, and no object carries
\* the bytes of a link, device or FIFO entry
OnlyDirsAndFiles ==
    /\ \A q \in DOMAIN fs : fs[q].type \in {"dir", "file"}
    /\ \A e \in Entries :
           IsSkippedType(e) => ~\E q \in DOMAIN fs : fs[q].data = e

(* C5: skip set.  In every state the host holds directories and regular
   files only, no object on disk carries the bytes of an entry whose type is
   symbolic link, hard link, character device, block device or FIFO, and the
   step of the loop body on such an entry creates no object at the entry's
   path (only missing directories above it). *)
C5_SkipSet ==
    /\ []OnlyDirsAndFiles
    /\ [][\A e \in Entries : SkipsEntry(e) => CreatesParentsOnly(e)]_vars

\* a run succeeded in which extractTarEntry was called on a link or device
\* entry (only that entry has its name, and the name is in the fileMap)
C5_Witness ==
    /\ Succeeded
    /\ \E e \in Entries :
           /\ IsSkippedType(e) /\ WasRead(e)
           /\ HeaderOf(e).Name \in fileMap
           /\ \A o \in Entries : o # e => HeaderOf(o).Name # HeaderOf(e).Name

\* the loop body runs on the regular-file entry e, which the ancestor check
\* does not skip, while its path holds a file that a newer layer wrote and
\* that os.Lstat reports, and the step returns no error
OverwritesNewer(e) ==
    /\ pc = "writeLayer" /\ pos < Len(layers[idx]) /\ e = <<idx, pos + 1>>
    /\ pos' = pos + 1
    /\ ret' \in {"running", "nil"}
    /\ e \notin unseen'
    /\ IsRegular(e) /\ ~IsWhiteout(e)
    /\ ~inWhiteoutDir(fileMap, PathOf(e))
    /\ PathOf(e) \in Files
    /\ fs[PathOf(e)].data[1] > e[1]

\* the file at the entry's path has the entry's bytes and the mode
\* extractTarEntry asks for
HoldsEntry(f, e) ==
    /\ PathOf(e) \in DOMAIN f
    /\ f[PathOf(e)].type = "file"
    /\ f[PathOf(e)].perm = PermMode(HeaderOf(e).Mode)
    /\ f[PathOf(e)].data = e

\* no name in the image spells a directory above the path, so the ancestor
\* check skips no entry of that path
NeverSkipped(path) ==
    \A o \in Entries : HeaderOf(o).Name \notin Ancestors(path)

\* after a successful run in which os.Lstat reported every object it was
\* asked for, a path for which a newer and an older layer hold regular files
\* (the older one read, none skipped) holds, if it holds a file, the bytes and
\* mode of an entry of that path from the older layer or below
OlderLayerWinsAtEnd ==
    Succeeded /\ unseen = {} =>
        \A n \in Entries, o \in Entries :
            /\ n[1] > o[1]
            /\ IsRegular(n) /\ ~IsWhiteout(n)
            /\ IsRegular(o) /\ ~IsWhiteout(o)
            /\ PathOf(n) = PathOf(o)
            /\ WasRead(o) /\ NeverSkipped(PathOf(o))
            /\ PathOf(o) \in Files
            => \E d \in Entries :
                   /\ d[1] <= o[1]
                   /\ IsRegular(d) /\ PathOf(d) = PathOf(o)
                   /\ HoldsEntry(fs, d)

(* C6: the same path in two layers without a whiteout.  Whenever the loop
   body runs on a regular-file entry whose path holds a file written from a
   newer layer, the path holds the older entry's bytes and mode afterwards;
   and after a successful run such a path holds the bytes and mode of the
   entry of the older layer, never those of the newer one.  The file of the
   newer layer is the one os.Lstat reports to the loop body. *)
C6_OlderLayerWins ==
    /\ []OlderLayerWinsAtEnd
    /\ [][\A e \in Entries : OverwritesNewer(e) => HoldsEntry(fs', e)]_vars

\* a run succeeded in which both layers hold a regular file of one path, and
\* the path holds the older layer's bytes and mode
C6_Witness ==
    /\ Succeeded
    /\ \E n \in Entries, o \in Entries :
           /\ n[1] > o[1]
           /\ IsRegular(n) /\ IsRegular(o)
           /\ PathOf(n) = PathOf(o)
           /\ HeaderOf(n).Mode # HeaderOf(o).Mode
           /\ HoldsEntry(fs, o)

\* the call before call number k
Prev(k) == calls[k - 1]

\* call number k is made where the code makes it
InOrder(k) ==
    LET c == calls[k]
    IN  CASE c[1] \in {"Layers", "LayersErr"} -> k = 1
          [] c[1] \in {"Digest", "DigestErr"} ->
                 /\ k > 1
                 /\ \/ c[2] = Len(layers) /\ Prev(k)[1] = "Layers"
                    \/ Prev(k)[1] = "ReturnNil" /\ Prev(k)[2] = c[2] + 1
          [] c[1] = "Logf" ->
                 /\ k > 1
                 /\ Prev(k)[1] = "Digest" /\ Prev(k)[2] = c[2]
                 /\ c[3] = Cardinality({j \in 1..k : calls[j][1] = "Digest"})
                 /\ c[3] = Len(layers) - c[2] + 1
                 /\ c[4] = Len(layers)
          [] c[1] \in {"Uncompressed", "UncompressedErr"} ->
                 /\ k > 1
                 /\ Prev(k)[1] = "Logf" /\ Prev(k)[2] = c[2]
          [] c[1] = "Next" ->
                 /\ k > 1
                 /\ Prev(k)[2] = c[2]
                 /\ \/ c[3] = 1 /\ Prev(k)[1] = "Uncompressed"
                    \/ c[3] > 1 /\ Prev(k)[1] = "Next" /\ Prev(k)[3] = c[3] - 1
          [] c[1] \in {"NextEOF", "NextErr"} ->
                 /\ k > 1
                 /\ Prev(k)[2] = c[2]
                 /\ \/ c[3] = 0 /\ Prev(k)[1] = "Uncompressed"
                    \/ c[3] > 0 /\ Prev(k)[1] = "Next" /\ Prev(k)[3] = c[3]
          [] c[1] \in {"ReturnNil", "ReturnErr"} ->
                 /\ k > 1
                 /\ Prev(k)[2] = c[2]
                 /\ Prev(k)[1] \in {"Next", "NextEOF", "NextErr"}
          [] c[1] = "Close" ->
                 \A j \in k..Len(calls) : calls[j][1] = "Close"

(* C7: traversal order.  The layers are taken one at a time from the top
   layer L[N] down to L[1]: each layer's digest is read first, then its
   progress message (position k of N for the k-th layer taken) is logged,
   then its stream is opened, then its headers are read in order; the next
   layer's digest is read only after writeLayer returned for this one. *)
C7_TraversalOrder == \A k \in 1..Len(calls) : InOrder(k)

\* a run over two layers succeeded, each with an entry
C7_Witness ==
    /\ Succeeded
    /\ Len(layers) = 2
    /\ <<"Logf", 2, 1, 2>> \in Range(calls)
    /\ <<"Logf", 1, 2, 2>> \in Range(calls)
    /\ <<"Next", 2, 1>> \in Range(calls)
    /\ <<"Next", 1, 1>> \in Range(calls)

(* C8: abort on first error.  Once Digest, Uncompressed or writeLayer has
   returned an error, AsDirectory has returned an error and the only calls
   made since are the deferred Close calls. *)
C8_AbortOnFirstError ==
    \A k \in 1..Len(calls) :
        /\ calls[k][1] = "NextErr" =>
               k < Len(calls) /\ calls[k + 1][1] = "ReturnErr"
        /\ calls[k][1] \in {"DigestErr", "UncompressedErr", "ReturnErr"} =>
               /\ Failed
               /\ \A j \in (k + 1)..Len(calls) : calls[j][1] = "Close"

\* the top layer's first entry failed, with a second entry and an older
\* layer left unprocessed
C8_Witness ==
    /\ Failed
    /\ Len(layers) = 2 /\ Len(layers[2]) = 2
    /\ <<"ReturnErr", 2, 1>> \in Range(calls)

\* Uncompressed returned the layer's stream
Acquired(i) == <<"Uncompressed", i, 0>> \in Range(calls)

(* C9: stream release.  When AsDirectory has returned, with nil or with an
   error, every stream it acquired has been closed exactly once (and no
   other stream has been closed). *)
C9_StreamRelease ==
    pc = "done" =>
        /\ DOMAIN closed \in {1..Len(layers), {}}
        /\ \A i \in DOMAIN closed : closed[i] = IF Acquired(i) THEN 1 ELSE 0
        /\ \A i \in 1..Len(layers) : Acquired(i) => i \in DOMAIN closed
        /\ \A i \in 1..Len(layers) :
               Cardinality({k \in 1..Len(calls) : calls[k] = <<"Close", i, 0>>})
                   = IF Acquired(i) THEN 1 ELSE 0

\* AsDirectory failed on the older layer with both streams acquired
C9_Witness ==
    /\ Failed
    /\ Len(layers) = 2
    /\ Acquired(1) /\ Acquired(2)
    /\ closed = <<1, 1>>

\* the objects beneath the destination root
Tree == { q \in DOMAIN fs : Under(q, DirPath) /\ q # DirPath }

(* C10: destination reset.  When the run comes to enumerate the layers the
   destination is an empty directory and no call on the image has been made;
   a file that was there before the run is there only until the reset, or
   after a failed removal; and when the removal or the creation fails the run
   has returned that error without any call on the image. *)
C10_DestinationReset ==
    /\ pc = "layers" =>
           /\ DirPath \in DOMAIN fs /\ fs[DirPath].type = "dir"
           /\ Tree = {}
           /\ calls = <<>>
    /\ (\E q \in Files : fs[q].data = OldData) =>
           pc = "start" \/ ret = "Removing output directory"
    /\ ret \in {"Removing output directory", "Creating output directory"} =>
           pc = "done" /\ calls = <<>> /\ layers = <<>>
    /\ calls # <<>> => DirPath \in touched

\* a run succeeded that wrote anew the path of the file that was there
\* before the run
C10_Witness ==
    /\ Succeeded
    /\ \E q \in Files : InitialFs[q].data = OldData /\ fs[q].data # OldData

\* the removal failed and AsDirectory returned the error
C10_WitnessFailed == ret = "Removing output directory" /\ fs = InitialFs

\* digit number k of m written in octal (digit 0 is the last)
OctalDigit(m, k) == (m \div (8 ^ k)) % 8

\* m & 0077 != 0
HasGroupOrOtherBit(m) == OctalDigit(m, 0) # 0 \/ OctalDigit(m, 1) # 0

\* u | (u >> 3) | (u >> 6) with u = m & 0700: the owner's digit three times
OwnerBitsReplicated(m) ==
    OctalDigit(m, 2) * 64 + OctalDigit(m, 2) * 8 + OctalDigit(m, 2)

\* the files on disk that were written from an entry of the image
WrittenFiles == { q \in Files : fs[q].data \in Entries }

(* C11: permission normalization.  Every regular file created from an entry
   of stored mode m was opened with mode m when m has a group or other bit,
   and with the owner's bits copied to group and other when it has none:
   0600 gives 0666, 0700 gives 0777 and 0750 stays 0750. *)
C11_PermissionNormalization ==
    \A q \in WrittenFiles :
        /\ fs[q].perm = IF HasGroupOrOtherBit(HeaderOf(fs[q].data).Mode)
                        THEN HeaderOf(fs[q].data).Mode
                        ELSE OwnerBitsReplicated(HeaderOf(fs[q].data).Mode)
        /\ HeaderOf(fs[q].data).Mode = 384 => fs[q].perm = 438
        /\ HeaderOf(fs[q].data).Mode = 448 => fs[q].perm = 511
        /\ HeaderOf(fs[q].data).Mode = 488 => fs[q].perm = 488

\* a run succeeded that created a file of stored mode 0750, which has a group
\* bit and no other bit
C11_Witness ==
    /\ Succeeded
    /\ \E q \in WrittenFiles :
           HeaderOf(fs[q].data).Mode = 488 /\ fs[q].perm = 488

\* the destination root and what lies beneath it, in the filesystem f
DestTree(f) == [q \in { p \in DOMAIN f : Under(p, DirPath) } |-> f[q]]

(* C12: idempotence of re-run.  When AsDirectory has returned for the second
   time on the same image and destination, after a first call that returned
   nil, the destination tree (paths, types, contents and modes) is the one
   the first call left. *)
C12_RerunIdempotent ==
    pc = "done" /\ runs # <<>> /\ runs[Len(runs)].ret = "nil" =>
        DestTree(fs) = DestTree(runs[Len(runs)].fs)

\* the loop body of writeLayer runs on the entry e in this step
StepOn(e) ==
    /\ pc = "writeLayer" /\ pos < Len(layers[idx]) /\ e = <<idx, pos + 1>>
    /\ pos' = pos + 1

\* the entry is no whiteout and the ancestor check does not skip it
NotSuppressed(e) == ~IsWhiteout(e) /\ ~inWhiteoutDir(fileMap, PathOf(e))

\* the step returns no error from AsDirectory
NoError == ret' \in {"running", "nil"}

IsDirectory(e) == HeaderOf(e).Typeflag = TypeDir

(* C13: directory entries.  After the loop body has run without error on a
   directory entry that is no whiteout, is not under a whited-out ancestor
   and is not the root placeholder, a directory exists at the entry's path. *)
C13_DirectoryCreated ==
    [][\A e \in Entries :
           /\ StepOn(e) /\ NoError
           /\ IsDirectory(e) /\ NotSuppressed(e)
           /\ HeaderOf(e).Name # DOT
           => /\ PathOf(e) \in DOMAIN fs'
              /\ fs'[PathOf(e)].type = "dir"]_vars

(* C14: a failed whiteout removal is not fatal and the traversal goes on.
   writeLayer never returns an error from the loop body's run on a whiteout
   entry, and it returns nil only when every entry of the layer's stream has
   been consumed. *)
C14_WhiteoutFailureContinues ==
    \A k \in 1..Len(calls) :
        /\ calls[k][1] = "ReturnErr" /\ calls[k - 1][1] = "Next" =>
               ~IsWhiteout(<<calls[k][2], calls[k][3]>>)
        /\ calls[k][1] = "ReturnNil" =>
               calls[k][3] = Len(layers[calls[k][2]])

\* when the loop of AsDirectory has gone on to a layer, the stream of every
\* layer above it has been read to its end or closed
UpperStreamsFinished(i) ==
    \A j \in (i + 1)..Len(layers) :
        Drained(j) \/ <<"Close", j, 0>> \in Range(calls)

(* C15: the stream is drained or closed before moving on.  Whenever
   AsDirectory has started on a layer (its digest is asked for), the stream
   of each layer processed before it has been read to its end or closed. *)
C15_DrainedOrClosed ==
    \A k \in 1..Len(calls) :
        calls[k][1] \in {"Digest", "DigestErr"} => UpperStreamsFinished(calls[k][2])

\* the objects of the filesystem f at the path or beneath it
Subtree(f, path) == { q \in DOMAIN f : Under(q, path) }

\* the step leaves the object at the path and everything beneath it as it was
KeepsSubtree(path) ==
    \A q \in Subtree(fs, path) : q \in DOMAIN fs' /\ fs'[q] = fs[q]

\* after the step nothing of what was at the path or beneath it is left: the
\* path holds at most the file created anew for the entry e, with the entry's
\* bytes (a part of them when io.Copy failed)
ReplacesSubtree(e, path) ==
    /\ \A q \in Subtree(fs, path) : q # path => q \notin DOMAIN fs'
    /\ path \in DOMAIN fs' =>
           /\ IsRegular(e)
           /\ fs'[path].type = "file"
           /\ fs'[path].perm = PermMode(HeaderOf(e).Mode)
           /\ fs'[path].owner \in {ProcessOwner, <<HeaderOf(e).Uid, HeaderOf(e).Gid>>}
           /\ fs'[path].data \in {e, Torn(e)}
           /\ NoError => HoldsEntry(fs', e)

(* C16: type-transition rule.  When the loop body runs on an entry that is
   not suppressed and os.Lstat finds an object at the entry's path, the
   object and all beneath it stay as they are if the object is a directory
   and the entry a directory entry; in every other case (unless the removal
   itself fails) the object and all beneath it are removed, and the path then
   holds at most the file written from the entry. *)
C16_TypeTransition ==
    [][\A e \in Entries :
           /\ StepOn(e) /\ NotSuppressed(e)
           /\ HeaderOf(e).Name # DOT
           /\ PathOf(e) \in DOMAIN fs /\ e \notin unseen'
           => IF fs[PathOf(e)].type = "dir" /\ IsDirectory(e)
              THEN KeepsSubtree(PathOf(e))
              ELSE ret' # "RemoveAll" => ReplacesSubtree(e, PathOf(e))]_vars

\* a run succeeded in which the older layer's regular file stands where the
\* newer layer had made a directory with a file in it
C16_Witness ==
    /\ Succeeded
    /\ \E n \in Entries, o \in Entries :
           /\ n[1] > o[1]
           /\ IsRegular(n) /\ IsRegular(o)
           /\ PathOf(o) \in Ancestors(PathOf(n))
           /\ HoldsEntry(fs, o)
           /\ PathOf(n) \notin DOMAIN fs

\* a run succeeded in which a directory entry met the directory that a newer
\* layer had made, and the newer layer's file in it is still there
C16_WitnessMerge ==
    /\ Succeeded
    /\ \E n \in Entries, o \in Entries :
           /\ n[1] > o[1]
           /\ IsRegular(n) /\ IsDirectory(o)
           /\ PathOf(o) \in Ancestors(PathOf(n))
           /\ HoldsEntry(fs, n)

\* the entry's type flag is none of those extractTarEntry knows
IsUnsupported(e) ==
    HeaderOf(e).Typeflag \notin {TypeDir, TypeReg, TypeRegA, TypeLink, TypeSymlink,
                                 TypeChar, TypeBlock, TypeFifo}

(* C17: unsupported entry type.  When the loop body runs on an entry that is
   not suppressed and whose type flag is none of directory, regular file,
   hard link, symbolic link, character device, block device and FIFO,
   AsDirectory returns an error in that step: the error names the type flag
   and the entry's name (unless os.RemoveAll or os.MkdirAll failed before the
   type was looked at), no file is created for the entry, and the only calls
   made after the entry was read are the deferred Close calls. *)
C17_UnsupportedType ==
    [][\A e \in Entries :
           /\ StepOn(e) /\ NotSuppressed(e)
           /\ IsUnsupported(e)
           => /\ pc' = "done"
              /\ ret' \in {UnsupportedError(HeaderOf(e)), "RemoveAll", "MkdirAll"}
              /\ ret' = UnsupportedError(HeaderOf(e)) =>
                     ret' = "Unsupported tar entry type 'g' for file 'a'"
              /\ \A q \in DOMAIN fs' : fs'[q].data # e
              /\ PathOf(e) \in DOMAIN fs' =>
                     PathOf(e) \in DOMAIN fs /\ fs'[PathOf(e)] = fs[PathOf(e)]
              /\ calls' = calls \o << <<"Next", e[1], e[2]>>,
                                      <<"ReturnErr", e[1], e[2]>> >>
                                \o CloseCalls(deferred)]_vars

\* AsDirectory returned the error that names the type flag and the name of
\* the top layer's first entry, with a second entry and an older layer left
C17_Witness ==
    /\ Failed
    /\ Len(layers) = 2 /\ Len(layers[2]) = 2
    /\ IsUnsupported(<<2, 1>>)
    /\ ret = UnsupportedError(HeaderOf(<<2, 1>>))
    /\ calls[Len(calls) - 1] = <<"ReturnErr", 2, 1>>

\* os.RemoveAll and os.MkdirAll of the destination root have succeeded
RootRecreated ==
    /\ pc # "start"
    /\ ret \notin {"Removing output directory", "Creating output directory"}

(* C18: the destination root is never clobbered by layer content.  In every
   state from the recreation of the root to the return of AsDirectory, the
   root exists and is a directory. *)
C18_RootNeverClobbered ==
    RootRecreated => DirPath \in DOMAIN fs /\ fs[DirPath].type = "dir"

\* the files on disk that were written from an entry of a layer above layer i
FilesFromAbove(i) == { q \in WrittenFiles : fs[q].data[1] > i }

(* C19: a whiteout only affects older layers.  The loop body's run on a
   whiteout entry of layer M removes or changes no file that was written from
   a layer newer than M. *)
C19_WhiteoutSparesNewer ==
    [][\A w \in Entries :
           StepOn(w) /\ IsWhiteout(w) =>
               \A q \in FilesFromAbove(w[1]) :
                   q \in DOMAIN fs' /\ fs'[q] = fs[q]]_vars

(* C20: skipped entry types leave the tree unchanged.  The loop body's run
   on a symbolic link, hard link, character device, block device or FIFO
   entry removes or changes no object that is on disk. *)
C20_SkippedTypesChangeNothing ==
    [][\A e \in Entries :
           SkipsEntry(e) =>
               \A q \in DOMAIN fs : q \in DOMAIN fs' /\ fs'[q] = fs[q]]_vars

====
